---- MODULE Spec2Model ----
(***************************************************************************)
(* A model of the TessNode OCR server (src/index.js): two POST handlers    *)
(* that stage a base64 image in uploads/, run the tesseract executable on  *)
(* it, read the output file from output/, delete the staged files and      *)
(* answer with JSON.                                                       *)
(*                                                                         *)
(* Strings are modelled as sequences of one-character strings, so that     *)
(* trim, split and the numeric parsers are computed as the code computes   *)
(* them.  A base64 string is modelled as the sequence of the 6-bit values  *)
(* of its characters.                                                      *)
(***************************************************************************)
EXTENDS Integers, Sequences, FiniteSets, TLC

\* ------------------------------------------------------------------ bounds
\* Number of requests the server receives.
MaxReq == 2
\* Largest value Date.now() takes (the clock starts at 0).
MaxClock == 1

Requests == 1..MaxReq
Tokens == 0..MaxClock

\* ------------------------------------------------------- JavaScript strings
WhiteSpace == {" ", "\t", "\n", "\r"}

RECURSIVE TrimStart(_)
\* String.prototype.trimStart
TrimStart(s) ==
    IF s = <<>> THEN <<>>
    ELSE IF Head(s) \in WhiteSpace THEN TrimStart(Tail(s)) ELSE s

RECURSIVE TrimEnd(_)
\* String.prototype.trimEnd
TrimEnd(s) ==
    IF s = <<>> THEN <<>>
    ELSE IF s[Len(s)] \in WhiteSpace THEN TrimEnd(SubSeq(s, 1, Len(s) - 1)) ELSE s

\* String.prototype.trim
Trim(s) == TrimEnd(TrimStart(s))

RECURSIVE SplitFrom(_, _, _)
\* The pieces of s between occurrences of sep, cur being the piece under way.
SplitFrom(s, sep, cur) ==
    IF s = <<>> THEN <<cur>>
    ELSE IF Head(s) = sep THEN <<cur>> \o SplitFrom(Tail(s), sep, <<>>)
    ELSE SplitFrom(Tail(s), sep, Append(cur, Head(s)))

\* String.prototype.split with a one-character separator
Split(s, sep) == SplitFrom(s, sep, <<>>)

RECURSIVE Join(_, _)
\* Array.prototype.join: the inverse of Split, used to write the sample files
Join(parts, sep) ==
    IF parts = <<>> THEN <<>>
    ELSE IF Len(parts) = 1 THEN parts[1]
    ELSE parts[1] \o <<sep>> \o Join(Tail(parts), sep)

\* Array.prototype.slice(1)
Slice1(a) == IF a = <<>> THEN <<>> ELSE Tail(a)

RECURSIVE FilterNonBlank(_)
\* lines.filter(line => line.trim()): an empty string is falsy
FilterNonBlank(lines) ==
    IF lines = <<>> THEN <<>>
    ELSE IF Trim(Head(lines)) = <<>> THEN FilterNonBlank(Tail(lines))
    ELSE <<Head(lines)>> \o FilterNonBlank(Tail(lines))

\* ------------------------------------------------------- JavaScript numbers
\* A number is mant / 10^scale, or not-a-number.
NaN == [nan |-> TRUE, mant |-> 0, scale |-> 0]

Num(m, sc) == [nan |-> FALSE, mant |-> m, scale |-> sc]

Digits == {"0", "1", "2", "3", "4", "5", "6", "7", "8", "9"}

DigitVal(c) ==
    CASE c = "0" -> 0 [] c = "1" -> 1 [] c = "2" -> 2 [] c = "3" -> 3
      [] c = "4" -> 4 [] c = "5" -> 5 [] c = "6" -> 6 [] c = "7" -> 7
      [] c = "8" -> 8 [] c = "9" -> 9

RECURSIVE DigitPrefix(_)
\* The longest prefix of s made of decimal digits.
DigitPrefix(s) ==
    IF s = <<>> \/ Head(s) \notin Digits THEN <<>>
    ELSE <<Head(s)>> \o DigitPrefix(Tail(s))

RECURSIVE DigitsValue(_, _)
\* The value of a digit string, acc being the value of the digits read.
DigitsValue(s, acc) ==
    IF s = <<>> THEN acc ELSE DigitsValue(Tail(s), acc * 10 + DigitVal(Head(s)))

RECURSIVE Normalise(_, _)
\* One representation per value: no trailing zero in the fraction.
Normalise(m, sc) ==
    IF sc > 0 /\ m % 10 = 0 THEN Normalise(m \div 10, sc - 1) ELSE Num(m, sc)

\* A value read from an array: a string, or undefined past the end.
JsString(s) == [undef |-> FALSE, s |-> s]

JsUndefinedField == [undef |-> TRUE, s |-> <<>>]

\* Array destructuring: the i-th element, undefined when the array is shorter.
Field(fields, i) == IF i <= Len(fields) THEN JsString(fields[i]) ELSE JsUndefinedField

\* The sign and the unsigned rest of a numeric string, leading white space skipped.
SignOf(s) == IF s # <<>> /\ Head(s) = "-" THEN -1 ELSE 1

Unsigned(s) == IF s # <<>> /\ Head(s) \in {"-", "+"} THEN Tail(s) ELSE s

\* parseInt(v), radix 10: String(undefined) holds no digit
parseInt(v) ==
    IF v.undef THEN NaN
    ELSE LET t == TrimStart(v.s)
             d == DigitPrefix(Unsigned(t))
         IN  IF d = <<>> THEN NaN ELSE Num(SignOf(t) * DigitsValue(d, 0), 0)

\* parseFloat(v): digits, then an optional fraction
parseFloat(v) ==
    IF v.undef THEN NaN
    ELSE LET t == TrimStart(v.s)
             u == Unsigned(t)
             ip == DigitPrefix(u)
             rest == SubSeq(u, Len(ip) + 1, Len(u))
             fp == IF rest # <<>> /\ Head(rest) = "." THEN DigitPrefix(Tail(rest)) ELSE <<>>
         IN  IF ip = <<>> /\ fp = <<>> THEN NaN
             ELSE Normalise(SignOf(t) * DigitsValue(ip \o fp, 0), Len(fp))

\* The second operand in place of the sum.
PlusSecondOnly(a, b) == b

\* a + b on integers held as numbers: not-a-number propagates
Plus(a, b) == IF a.nan \/ b.nan THEN NaN ELSE Num(a.mant + b.mant, 0)

\* ------------------------------------------------------------ result parser
\* The record built from one row; text.trim() throws a TypeError when the row
\* has fewer than 12 fields, text being undefined.
ParseRow(line) ==
    LET f == Split(line, "\t")
        left == Field(f, 7)
        top == Field(f, 8)
        width == Field(f, 9)
        height == Field(f, 10)
        conf == Field(f, 11)
        text == Field(f, 12)
    IN  IF text.undef
        THEN [threw |-> TRUE, box |-> <<>>]
        ELSE [threw |-> FALSE,
              box |-> <<[text |-> Trim(text.s),
                         confidence |-> parseFloat(conf),
                         x_min |-> parseInt(left),
                         y_min |-> parseInt(top),
                         x_max |-> Plus(parseInt(left), parseInt(width)),
                         y_max |-> Plus(parseInt(top), parseInt(height))]>>]

RECURSIVE MapRows(_)
\* lines.map(...): the first row that throws ends the map
MapRows(lines) ==
    IF lines = <<>> THEN [threw |-> FALSE, box |-> <<>>]
    ELSE LET r == ParseRow(Head(lines))
         IN  IF r.threw THEN r
             ELSE LET rest == MapRows(Tail(lines))
                  IN  IF rest.threw THEN rest
                      ELSE [threw |-> FALSE, box |-> r.box \o rest.box]

\* The bboxes computed from the content of the .tsv file.
ParseTsv(data) == MapRows(FilterNonBlank(Slice1(Split(data, "\n"))))

\* The payload with only the rows of the level bbox_type names.
BboxesPayloadByLevel(data, bboxType) ==
    LET level == CASE bboxType = "page" -> "1" [] bboxType = "block" -> "2"
                   [] bboxType = "paragraph" -> "3" [] bboxType = "line" -> "4"
                   [] bboxType = "word" -> "5" [] OTHER -> "0"
        lines == FilterNonBlank(Slice1(Split(data, "\n")))
        kept == SelectSeq(lines, LAMBDA l : Split(l, "\t")[1] = <<level>>)
        p == MapRows(kept)
    IN  [threw |-> p.threw, bboxes |-> p.box, bbox_type |-> bboxType]

\* What the get-bboxes handler makes of the content of the .tsv file: the
\* result { bboxes, bbox_type } of its success response, or an exception.
BboxesPayload(data, bboxType) ==
    LET p == ParseTsv(data)
    IN  [threw |-> p.threw, bboxes |-> p.box, bbox_type |-> bboxType]

\* ---------------------------------------------------------- image validator
\* Buffer.from(s, 'base64'): every 4 characters give 3 bytes, a last group of
\* 3 gives 2 bytes, of 2 gives 1 byte and of 1 gives none.
RECURSIVE Base64Decode(_)
Base64Decode(s) ==
    IF Len(s) < 2 THEN <<>>
    ELSE LET b1 == s[1] * 4 + s[2] \div 16
         IN  IF Len(s) = 2 THEN <<b1>>
             ELSE LET b2 == (s[2] % 16) * 16 + s[3] \div 4
                  IN  IF Len(s) = 3 THEN <<b1, b2>>
                      ELSE <<b1, b2, (s[3] % 4) * 64 + s[4]>>
                               \o Base64Decode(SubSeq(s, 5, Len(s)))

RECURSIVE ToHex(_)
\* The hexadecimal digits (as values 0..15) of a byte sequence.
ToHex(bytes) ==
    IF bytes = <<>> THEN <<>>
    ELSE <<Head(bytes) \div 16, Head(bytes) % 16>> \o ToHex(Tail(bytes))

\* buffer.toString('hex', start, end): end is clamped to the buffer's length
HexSlice(buffer, start, end) ==
    ToHex(SubSeq(buffer, start + 1, IF end < Len(buffer) THEN end ELSE Len(buffer)))

\* String.prototype.startsWith
StartsWith(s, prefix) ==
    Len(s) >= Len(prefix) /\ SubSeq(s, 1, Len(prefix)) = prefix

\* 'ffd8', '8950', '4749': jpg, png, gif
Signatures == {<<15, 15, 13, 8>>, <<8, 9, 5, 0>>, <<4, 7, 4, 9>>}

\* A value of the request body: undefined, a string or a number.
JsUndefined == [type |-> "undefined", v |-> <<>>]

JsStr(s) == [type |-> "string", v |-> s]

JsNumber == [type |-> "number", v |-> <<>>]

\* !x for the values above: undefined and the empty string are falsy (the
\* number stands for a non-zero one)
Falsy(x) == x.type = "undefined" \/ (x.type = "string" /\ x.v = <<>>)

\* The validator comparing the first byte only.
isValidBase64ImageFirstByte(base64String) ==
    IF base64String.type # "string" THEN FALSE
    ELSE LET buffer == Base64Decode(base64String.v)
             firstBytes == HexSlice(buffer, 0, 1)
         IN  \E sig \in Signatures : StartsWith(firstBytes, SubSeq(sig, 1, 2))

\* The validator without the comparison with the signatures.
isValidBase64ImageAnyString(base64String) == base64String.type = "string"

\* isValidBase64Image: Buffer.from throws on a number, which the catch turns
\* into false
isValidBase64Image(base64String) ==
    IF base64String.type # "string" THEN FALSE
    ELSE LET buffer == Base64Decode(base64String.v)
             firstBytes == HexSlice(buffer, 0, 4)
         IN  \E sig \in Signatures : StartsWith(firstBytes, sig)

VALID_BBOX_TYPES == {"word", "line", "paragraph", "block", "page"}

\* -------------------------------------------------------------- file system
\* path.join('uploads', `image_${t}.png`)
UploadPath(t) == [dir |-> "uploads", token |-> t, ext |-> "png"]

\* path.join('output', `image_${t}`)
OutputBase(t) == [dir |-> "output", token |-> t, ext |-> ""]

\* `${outputBase}.txt`, `${outputBase}.tsv`
WithExt(outputBase, e) == [outputBase EXCEPT !.ext = e]

\* Every file name the handlers can form.
Paths ==
    {UploadPath(t) : t \in Tokens}
        \cup {WithExt(OutputBase(t), e) : t \in Tokens, e \in {"txt", "tsv"}}

\* A file: src is the request whose image the content was made from (a ghost
\* field, 0 for no request), body its content.
NoFile == [present |-> FALSE, src |-> 0, body |-> <<>>]

File(src, body) == [present |-> TRUE, src |-> src, body |-> body]

\* fs.existsSync
existsSync(fs, p) == fs[p].present

\* The files named by a pair (imagePath, outputBase).
OwnPathsOf(imagePath, outputBase) ==
    {imagePath, WithExt(outputBase, "txt"), WithExt(outputBase, "tsv")}

\* The three names cleanupFiles deletes, in the order of its statements.
CleanupTargets(imagePath, outputBase) ==
    <<imagePath, WithExt(outputBase, "txt"), WithExt(outputBase, "tsv")>>

RECURSIVE UnlinkEach(_, _, _)
\* The body of the try block of cleanupFiles: each file that exists is
\* unlinked; fs.unlinkSync throws on a file of `undeletable`, which ends the
\* block.
UnlinkEach(fs, undeletable, targets) ==
    IF targets = <<>> THEN [fs |-> fs, threw |-> FALSE]
    ELSE LET p == Head(targets)
         IN  IF ~existsSync(fs, p) THEN UnlinkEach(fs, undeletable, Tail(targets))
             ELSE IF p \in undeletable THEN [fs |-> fs, threw |-> TRUE]
             ELSE UnlinkEach([fs EXCEPT ![p] = NoFile], undeletable, Tail(targets))

\* cleanupFiles without its try/catch: a failed deletion reaches the caller.
cleanupFilesNoCatch(fs, undeletable, imagePath, outputBase) ==
    LET b == UnlinkEach(fs, undeletable, CleanupTargets(imagePath, outputBase))
    IN  [fs |-> b.fs, raised |-> b.threw, logged |-> FALSE]

\* cleanupFiles that empties both directories instead of deleting its own files.
cleanupFilesSweep(fs, undeletable, imagePath, outputBase) ==
    [fs |-> [p \in DOMAIN fs |-> IF p \in undeletable THEN fs[p] ELSE NoFile],
     raised |-> FALSE,
     logged |-> \E p \in undeletable : fs[p].present]

\* cleanupFiles(imagePath, outputBase) in file system fs, where unlinking a file
\* of `undeletable` fails: the file system it leaves, whether an error reaches
\* the caller, and whether 'Cleanup error:' is logged.
cleanupFiles(fs, undeletable, imagePath, outputBase) ==
    LET b == UnlinkEach(fs, undeletable, CleanupTargets(imagePath, outputBase))
    IN  [fs |-> b.fs, raised |-> FALSE, logged |-> b.threw]

\* ------------------------------------------------------------------- inputs
\* "/9g=" decodes to FF D8, "AAAA" to 00 00 00.
Jpg64 == <<63, 61, 32>>

Zero64 == <<0, 0, 0, 0>>

\* The base64_image values a request body carries.
ImageInputs == {JsUndefined, JsStr(<<>>), JsNumber, JsStr(Jpg64), JsStr(Zero64)}

\* A bbox_type of the request body: v is the whole string, "" when undefined.
NoBboxType == [type |-> "undefined", v |-> ""]

BboxType(s) == [type |-> "string", v |-> s]

\* The bbox_type values a request body carries.
BboxTypeInputs == {NoBboxType, BboxType("word"), BboxType("paragraph"), BboxType("bogus")}

\* A request: json is FALSE when the body is not well-formed JSON.
Request(endpoint, json, image, bboxType) ==
    [endpoint |-> endpoint, json |-> json, base64_image |-> image, bbox_type |-> bboxType]

NoRequest == Request("none", TRUE, JsUndefined, NoBboxType)

GetTextInputs ==
    {Request("get-text", TRUE, i, NoBboxType) : i \in ImageInputs}
        \cup {Request("get-text", FALSE, JsUndefined, NoBboxType)}

GetBboxesInputs ==
    {Request("get-bboxes", TRUE, i, b) : i \in ImageInputs, b \in BboxTypeInputs}
        \cup {Request("get-bboxes", FALSE, JsUndefined, NoBboxType)}

\* What the recognizer writes to standard error when it fails (nothing when
\* it could not be spawned).
StderrTexts == {"", "boom"}

\* Contents the recognizer gives the .txt file.
TextSamples == {<<" ", "h", "i", "\n">>, <<>>}

HeaderLine == <<"l", "e", "v", "e", "l", "\t", "t", "e", "x", "t">>

\* "5\t1\t1\t1\t1\t1\t10\t20\t30\t8\t95.5\thello"
GoodRow ==
    Join(<< <<"5">>, <<"1">>, <<"1">>, <<"1">>, <<"1">>, <<"1">>, <<"1", "0">>,
            <<"2", "0">>, <<"3", "0">>, <<"8">>, <<"9", "5", ".", "5">>,
            <<"h", "e", "l", "l", "o">> >>, "\t")

\* A row cut short: 2 fields.
ShortRow == <<"5", "\t", "1">>

\* Contents the recognizer gives the .tsv file.
TsvSamples ==
    {Join(<<HeaderLine, GoodRow, <<>> >>, "\n"), Join(<<HeaderLine, ShortRow>>, "\n")}

\* ---------------------------------------------------------------- responses
NoResponse ==
    [status |-> 0, message |-> "", text |-> <<>>, bboxes |-> <<>>, bbox_type |-> "", src |-> 0]

\* res.status(status).json({ success: false, error: { message } })
ErrorResponse(status, message) == [NoResponse EXCEPT !.status = status, !.message = message]

\* res.json({ success: true, result: { text } }); src is the request whose image
\* the text was recognized from (a ghost field)
TextResponse(text, src) == [NoResponse EXCEPT !.status = 200, !.text = text, !.src = src]

\* res.json({ success: true, result: { bboxes, bbox_type } })
BboxesResponse(bboxes, bboxType, src) ==
    [NoResponse EXCEPT !.status = 200, !.bboxes = bboxes, !.bbox_type = bboxType, !.src = src]

\* -------------------------------------------------------------------- state
VARIABLES
    now,         \* the last value Date.now() returned
    files,       \* the uploads and output directories: path -> file
    req,         \* request -> the request received
    pc,          \* request -> idle, writing, recognizing, reading, done
    imagePath,   \* request -> its imagePath
    outputPath,  \* request -> its outputPath
    child,       \* request -> its recognizer child process
    resp,        \* request -> the response sent
    hist,        \* request -> what the handler has done so far (ghost)
    crashed,     \* the process died of an uncaught exception
    fn           \* the argument and results of a function under test

vars == <<now, files, req, pc, imagePath, outputPath, child, resp, hist, crashed, fn>>

NoPath == [dir |-> "", token |-> 0, ext |-> ""]

NoChild == [state |-> "none", err |-> FALSE, stderr |-> ""]

NoHist ==
    [writes |-> 0, wrote |-> FALSE, execs |-> 0, reads |-> 0, cleanups |-> 0,
     responses |-> 0, raised |-> "none", fail |-> "none"]

NoFn == [op |-> "none"]

ServerInit ==
    /\ now = 0
    /\ files = [p \in Paths |-> NoFile]
    /\ req = [r \in Requests |-> NoRequest]
    /\ pc = [r \in Requests |-> "idle"]
    /\ imagePath = [r \in Requests |-> NoPath]
    /\ outputPath = [r \in Requests |-> NoPath]
    /\ child = [r \in Requests |-> NoChild]
    /\ resp = [r \in Requests |-> NoResponse]
    /\ hist = [r \in Requests |-> NoHist]
    /\ crashed = FALSE

Init == ServerInit /\ fn = NoFn

\* The request has computed its file names.
Staged(r) == imagePath[r] # NoPath

\* The request asked for tabular output.
Tabular(r) == req[r].endpoint = "get-bboxes"

\* The files staged or produced for a request.
OwnPaths(r) ==
    IF Staged(r) THEN OwnPathsOf(imagePath[r], outputPath[r]) ELSE {}

\* ----------------------------------------------------------------- handlers
\* A response is sent and the handler is over.
Respond(r, response, fail) ==
    /\ resp' = [resp EXCEPT ![r] = response]
    /\ pc' = [pc EXCEPT ![r] = "done"]
    /\ hist' = [hist EXCEPT ![r].responses = @ + 1, ![r].fail = fail]

\* An exception leaves a callback of request r: nothing catches it and the
\* process dies.
Throw(r) ==
    /\ crashed' = TRUE
    /\ pc' = [pc EXCEPT ![r] = "threw"]
    /\ hist' = [hist EXCEPT ![r].raised = "callback"]

\* bodyParser.json hands its error to next(), which reaches the error handling
\* middleware.
ErrorMiddleware(r) ==
    /\ resp' = [resp EXCEPT ![r] = ErrorResponse(500, "Internal server error")]
    /\ pc' = [pc EXCEPT ![r] = "done"]
    /\ hist' = [hist EXCEPT ![r].responses = @ + 1, ![r].raised = "middleware"]
    /\ UNCHANGED <<now, files, imagePath, outputPath, child, crashed, fn>>

\* return res.status(400).json(...)
Reject(r, message) ==
    /\ Respond(r, ErrorResponse(400, message), "validation")
    /\ UNCHANGED <<now, files, imagePath, outputPath, child, crashed, fn>>

\* !base64_image || !isValidBase64Image(base64_image)
ImageRejected(q) == Falsy(q.base64_image) \/ ~isValidBase64Image(q.base64_image)

\* !bbox_type || !VALID_BBOX_TYPES.has(bbox_type)
BboxTypeRejected(q) ==
    q.bbox_type.type = "undefined" \/ q.bbox_type.v = "" \/ q.bbox_type.v \notin VALID_BBOX_TYPES

\* The values Date.now() can return after it returned t: the clock does not go
\* back, and advances by any amount between two requests.
Later(t) == {u \in Tokens : u >= t}

\* The two file names are formed by two calls of Date.now(), between which the
\* clock may advance by a millisecond; then fs.writeFile is called.
Stage(r) ==
    \E t1 \in Later(now) : \E t2 \in {t1, t1 + 1} \cap Tokens :
        /\ imagePath' = [imagePath EXCEPT ![r] = UploadPath(t1)]
        /\ outputPath' = [outputPath EXCEPT ![r] = OutputBase(t2)]
        /\ now' = t2
        /\ pc' = [pc EXCEPT ![r] = "writing"]
        /\ hist' = [hist EXCEPT ![r].writes = @ + 1]
        /\ UNCHANGED <<files, child, resp, crashed, fn>>

\* POST /api/get-text with request q, up to the call of fs.writeFile
HandleGetText(r, q) ==
    /\ req' = [req EXCEPT ![r] = q]
    /\ \/ ~q.json /\ ErrorMiddleware(r)
       \/ q.json /\ ImageRejected(q) /\ Reject(r, "Invalid base64_image.")
       \/ q.json /\ ~ImageRejected(q) /\ Stage(r)

GetText(r) ==
    /\ ~crashed
    /\ pc[r] = "idle"
    /\ \E q \in GetTextInputs : HandleGetText(r, q)

\* POST /api/get-bboxes with request q, up to the call of fs.writeFile
HandleGetBboxes(r, q) ==
    /\ req' = [req EXCEPT ![r] = q]
    /\ \/ ~q.json /\ ErrorMiddleware(r)
       \/ q.json /\ ImageRejected(q) /\ Reject(r, "Invalid base64_image.")
       \/ q.json /\ ~ImageRejected(q) /\ BboxTypeRejected(q)
             /\ Reject(r, "Invalid bbox_type.")
       \/ q.json /\ ~ImageRejected(q) /\ ~BboxTypeRejected(q) /\ Stage(r)

GetBboxes(r) ==
    /\ ~crashed
    /\ pc[r] = "idle"
    /\ \E q \in GetBboxesInputs : HandleGetBboxes(r, q)

\* The write failed and the handler goes on to the recognizer all the same.
OnWriteErrorNoReturn(r, partial) ==
    /\ files' = IF partial THEN [files EXCEPT ![imagePath[r]] = File(r, <<>>)] ELSE files
    /\ resp' = [resp EXCEPT ![r] = ErrorResponse(500, "Error saving image.")]
    /\ child' = [child EXCEPT ![r] = [NoChild EXCEPT !.state = "running"]]
    /\ pc' = [pc EXCEPT ![r] = "recognizing"]
    /\ hist' = [hist EXCEPT ![r].responses = @ + 1, ![r].fail = "write", ![r].execs = @ + 1]
    /\ UNCHANGED <<now, imagePath, outputPath, crashed, fn>>

\* The callback of fs.writeFile with an error: the file may have been created
\* (partial) or not before the write failed.
OnWriteError(r, partial) ==
    /\ files' = IF partial THEN [files EXCEPT ![imagePath[r]] = File(r, <<>>)] ELSE files
    /\ Respond(r, ErrorResponse(500, "Error saving image."), "write")
    /\ UNCHANGED <<now, imagePath, outputPath, child, crashed, fn>>

\* The callback of fs.writeFile without an error: the image is on disk and
\* exec starts the recognizer.
OnWriteDone(r) ==
    /\ files' = [files EXCEPT
                   ![imagePath[r]] = File(r, Base64Decode(req[r].base64_image.v))]
    /\ child' = [child EXCEPT ![r] = [NoChild EXCEPT !.state = "running"]]
    /\ pc' = [pc EXCEPT ![r] = "recognizing"]
    /\ hist' = [hist EXCEPT ![r].wrote = TRUE, ![r].execs = @ + 1]
    /\ UNCHANGED <<now, imagePath, outputPath, resp, crashed, fn>>

\* fs.writeFile completes and its callback runs.
WriteFileCallback(r) ==
    /\ ~crashed
    /\ pc[r] = "writing"
    /\ \/ \E partial \in BOOLEAN : OnWriteError(r, partial)
       \/ OnWriteDone(r)
    /\ UNCHANGED req

\* The output file the handler reads: .tsv for get-bboxes, .txt for get-text.
ResultPath(r) == WithExt(outputPath[r], IF Tabular(r) THEN "tsv" ELSE "txt")

\* The recognizer child process runs and exits.  It fails with some text on
\* standard error, or (the image being there) exits with code 0, having written
\* its output files or, although it reports success, none; with the tsv flag it
\* writes the .tsv file and possibly the .txt file.
RecognizerExit(r) ==
    /\ ~crashed
    /\ pc[r] = "recognizing"
    /\ child[r].state = "running"
    /\ \/ \E e \in StderrTexts :
            /\ child' = [child EXCEPT ![r] = [state |-> "exited", err |-> TRUE, stderr |-> e]]
            /\ UNCHANGED files
       \/ /\ files[imagePath[r]].present
          /\ child' = [child EXCEPT ![r] = [state |-> "exited", err |-> FALSE, stderr |-> ""]]
          /\ LET src == files[imagePath[r]].src
                 txt == WithExt(outputPath[r], "txt")
                 tsv == WithExt(outputPath[r], "tsv")
             IN  \/ UNCHANGED files
                 \/ ~Tabular(r) /\ \E t \in TextSamples :
                        files' = [files EXCEPT ![txt] = File(src, t)]
                 \/ Tabular(r) /\ \E d \in TsvSamples : \E withTxt \in BOOLEAN :
                        files' = [files EXCEPT
                                    ![tsv] = File(src, d),
                                    ![txt] = IF withTxt THEN File(src, <<>>) ELSE @]
    /\ UNCHANGED <<now, req, pc, imagePath, outputPath, resp, hist, crashed, fn>>

\* cleanupFiles(imagePath, outputPath), then the response.  Which deletions
\* fail is the file system's choice.
CleanupAndRespond(r, response, fail) ==
    \E undeletable \in SUBSET {p \in OwnPaths(r) : files[p].present} :
        LET c == cleanupFiles(files, undeletable, imagePath[r], outputPath[r])
        IN  /\ files' = c.fs
            /\ IF c.raised
               THEN /\ crashed' = TRUE
                    /\ pc' = [pc EXCEPT ![r] = "threw"]
                    /\ hist' = [hist EXCEPT ![r].cleanups = @ + 1, ![r].raised = "callback"]
                    /\ UNCHANGED resp
               ELSE /\ resp' = [resp EXCEPT ![r] = response]
                    /\ pc' = [pc EXCEPT ![r] = "done"]
                    /\ hist' = [hist EXCEPT ![r].cleanups = @ + 1,
                                            ![r].responses = @ + 1,
                                            ![r].fail = fail]
                    /\ UNCHANGED crashed
            /\ UNCHANGED <<now, req, imagePath, outputPath, child, fn>>

\* The message of the recognizer failure without the standard-error text.
ProcessingErrorNoDetail(stderr) == "Error processing image: "

\* `Error processing image: ${stderr}`
ProcessingError(stderr) == "Error processing image: " \o stderr

\* The body of the callback of exec without the return after the 500: the
\* handler goes on to fs.readFile.
OnExecNoReturn(r) ==
    \/ /\ child[r].err
       /\ files' = cleanupFiles(files, {}, imagePath[r], outputPath[r]).fs
       /\ resp' = [resp EXCEPT ![r] = ErrorResponse(500, ProcessingError(child[r].stderr))]
       /\ pc' = [pc EXCEPT ![r] = "reading"]
       /\ hist' = [hist EXCEPT ![r].cleanups = @ + 1, ![r].responses = @ + 1,
                               ![r].fail = "recognizer", ![r].reads = @ + 1]
       /\ UNCHANGED <<now, req, imagePath, outputPath, child, crashed, fn>>
    \/ /\ ~child[r].err
       /\ pc' = [pc EXCEPT ![r] = "reading"]
       /\ hist' = [hist EXCEPT ![r].reads = @ + 1]
       /\ UNCHANGED <<now, files, req, imagePath, outputPath, child, resp, crashed, fn>>

\* The body of the callback of exec: on an error, cleanup and a 500 with the
\* standard-error text; otherwise fs.readFile is called.
OnExec(r) ==
    \/ /\ child[r].err
       /\ CleanupAndRespond(r, ErrorResponse(500, ProcessingError(child[r].stderr)),
                            "recognizer")
    \/ /\ ~child[r].err
       /\ pc' = [pc EXCEPT ![r] = "reading"]
       /\ hist' = [hist EXCEPT ![r].reads = @ + 1]
       /\ UNCHANGED <<now, files, req, imagePath, outputPath, child, resp, crashed, fn>>

\* The callback of exec run as soon as the child process is started.
ExecCallbackEarly(r) ==
    /\ ~crashed
    /\ pc[r] = "recognizing"
    /\ child[r].state # "none"
    /\ OnExec(r)

\* The callback of exec runs once the child process has exited.
ExecCallback(r) ==
    /\ ~crashed
    /\ pc[r] = "recognizing"
    /\ child[r].state = "exited"
    /\ OnExec(r)

\* fs.readFile completes and its callback runs: a read error (always, when the
\* file is missing), the text result, or the parsed bounding boxes.
ReadFileCallback(r) ==
    /\ ~crashed
    /\ pc[r] = "reading"
    /\ LET f == files[ResultPath(r)]
       IN  \/ CleanupAndRespond(r, ErrorResponse(500, "Error reading output file."), "read")
           \/ /\ f.present
              /\ ~Tabular(r)
              /\ CleanupAndRespond(r, TextResponse(Trim(f.body), f.src), "none")
           \/ /\ f.present
              /\ Tabular(r)
              /\ LET b == BboxesPayload(f.body, req[r].bbox_type.v)
                 IN  /\ ~b.threw
                     /\ CleanupAndRespond(
                            r, BboxesResponse(b.bboxes, b.bbox_type, f.src), "none")
           \/ /\ f.present
              /\ Tabular(r)
              /\ BboxesPayload(f.body, req[r].bbox_type.v).threw
              /\ Throw(r)
              /\ UNCHANGED <<now, files, req, imagePath, outputPath, child, resp, fn>>

\* ------------------------------------------------------------------ process
\* The file system with the files of `keep` left and every other file deleted.
Keep(fs, keep) == [p \in DOMAIN fs |-> IF p \in keep THEN fs[p] ELSE NoFile]

\* What the SIGTERM handler can leave behind: it unlinks the files of uploads
\* and then those of output, in the order readdirSync lists them, and the first
\* unlink that throws ends the sweep.
SweepResults(fs) ==
    LET up == {p \in DOMAIN fs : fs[p].present /\ p.dir = "uploads"}
        out == {p \in DOMAIN fs : fs[p].present /\ p.dir = "output"}
    IN  {Keep(fs, left \cup out) : left \in SUBSET up \ {{}}}
            \cup {Keep(fs, left) : left \in SUBSET out}

\* process.on('SIGTERM'): the handler sweeps the directories; the process goes on
SigtermHandler ==
    /\ ~crashed
    /\ \E fs \in SweepResults(files) : files' = fs
    /\ UNCHANGED <<now, req, pc, imagePath, outputPath, child, resp, hist, crashed>>

Sigterm == SigtermHandler /\ UNCHANGED fn

Next ==
    \/ \E r \in Requests : GetText(r)
    \/ \E r \in Requests : GetBboxes(r)
    \/ \E r \in Requests : WriteFileCallback(r)
    \/ \E r \in Requests : RecognizerExit(r)
    \/ \E r \in Requests : ExecCallback(r)
    \/ \E r \in Requests : ReadFileCallback(r)
    \/ Sigterm

Spec == Init /\ [][Next]_vars

\* The asynchronous steps of a request complete: each file operation ends and
\* each child process exits, and the event loop runs the callback.
FairSpec ==
    /\ Spec
    /\ \A r \in Requests :
        /\ WF_vars(WriteFileCallback(r))
        /\ WF_vars(RecognizerExit(r))
        /\ WF_vars(ExecCallback(r))
        /\ WF_vars(ReadFileCallback(r))

\* ------------------------------------------------- cleanupFiles on its own
\* cleanupFiles is called twice with the same arguments in an arbitrary file
\* system: fn.before is the file system at the start, fn.first the one the first
\* call left, fn.fs the current one.
CleanupInit ==
    /\ ServerInit
    /\ \E t1 \in Tokens, t2 \in Tokens :
       \E present \in SUBSET Paths :
       \E undeletable \in SUBSET OwnPathsOf(UploadPath(t1), OutputBase(t2)) :
           LET fs == [p \in Paths |-> IF p \in present THEN File(1, <<>>) ELSE NoFile]
           IN  fn = [op |-> "cleanup", imagePath |-> UploadPath(t1),
                     outputBase |-> OutputBase(t2), undeletable |-> undeletable,
                     before |-> fs, first |-> fs, fs |-> fs, calls |-> 0,
                     raised |-> FALSE, logged |-> FALSE]

CleanupCall ==
    /\ fn.calls < 2
    /\ LET c == cleanupFiles(fn.fs, fn.undeletable, fn.imagePath, fn.outputBase)
       IN  fn' = [fn EXCEPT !.fs = c.fs,
                            !.first = IF fn.calls = 0 THEN c.fs ELSE @,
                            !.calls = @ + 1,
                            !.raised = @ \/ c.raised,
                            !.logged = @ \/ c.logged]
    /\ UNCHANGED <<now, files, req, pc, imagePath, outputPath, child, resp, hist, crashed>>

CleanupSpec == CleanupInit /\ [][CleanupCall]_vars

\* ------------------------- the server, with the requests a sweep met recorded
\* The request has staged its image and has not yet answered.
InFlight(r) == pc[r] \in {"writing", "recognizing", "reading"}

SignalInit == ServerInit /\ fn = [op |-> "signal", swept |-> [r \in Requests |-> FALSE]]

\* The SIGTERM handler; fn.swept[r] records that it ran while r was in flight.
SigtermInFlight ==
    /\ SigtermHandler
    /\ fn' = [fn EXCEPT !.swept = [r \in Requests |-> @[r] \/ InFlight(r)]]

SignalNext ==
    \/ \E r \in Requests : GetText(r)
    \/ \E r \in Requests : GetBboxes(r)
    \/ \E r \in Requests : WriteFileCallback(r)
    \/ \E r \in Requests : RecognizerExit(r)
    \/ \E r \in Requests : ExecCallback(r)
    \/ \E r \in Requests : ReadFileCallback(r)
    \/ SigtermInFlight

SignalSpec == SignalInit /\ [][SignalNext]_vars

\* --------------------------------------------- the SIGTERM handler on its own
\* The handler runs in an arbitrary file system in which unlinking a file of
\* fn.undeletable fails: fn.before is the file system at the start, fn.fs the
\* current one, fn.phase the directory being emptied (or "done").
SweepInit ==
    /\ ServerInit
    /\ \E present \in SUBSET Paths : \E undeletable \in SUBSET present :
           LET fs == [p \in Paths |-> IF p \in present THEN File(1, <<>>) ELSE NoFile]
           IN  fn = [op |-> "sweep", undeletable |-> undeletable, before |-> fs, fs |-> fs,
                     phase |-> "uploads", raised |-> FALSE, logged |-> FALSE]

\* The files of directory dir that are left to unlink.
Listed(fs, dir) == {p \in DOMAIN fs : fs[p].present /\ p.dir = dir}

\* One call of the forEach callback, on any file readdirSync listed: the file
\* is unlinked, or fs.unlinkSync throws, which the catch logs and which ends the
\* handler.
SweepUnlink ==
    /\ fn.op = "sweep"
    /\ fn.phase \in {"uploads", "output"}
    /\ \E p \in Listed(fn.fs, fn.phase) :
           IF p \in fn.undeletable
           THEN fn' = [fn EXCEPT !.phase = "done", !.logged = TRUE]
           ELSE fn' = [fn EXCEPT !.fs = [fn.fs EXCEPT ![p] = NoFile]]
    /\ UNCHANGED <<now, files, req, pc, imagePath, outputPath, child, resp, hist, crashed>>

\* forEach is over: uploads is followed by output, output by the end of the try
\* block.
SweepNextDirectory ==
    /\ fn.op = "sweep"
    /\ fn.phase \in {"uploads", "output"}
    /\ Listed(fn.fs, fn.phase) = {}
    /\ fn' = [fn EXCEPT !.phase = IF fn.phase = "uploads" THEN "output" ELSE "done"]
    /\ UNCHANGED <<now, files, req, pc, imagePath, outputPath, child, resp, hist, crashed>>

SweepNext == SweepUnlink \/ SweepNextDirectory

SweepSpec == SweepInit /\ [][SweepNext]_vars

\* ------------------------------------------------- the result parser on its own
\* Longest .tsv file, in lines after the header.
MaxLines == 2

\* A row of 12 fields, of which the first and the last six are given.
Row(level, left, top, width, height, conf, text) ==
    Join(<<level, <<"1">>, <<"1">>, <<"1">>, <<"1">>, <<"1">>,
           left, top, width, height, conf, text>>, "\t")

\* A bounding box.
Box(text, confidence, x_min, y_min, x_max, y_max) ==
    [text |-> text, confidence |-> confidence, x_min |-> x_min, y_min |-> y_min,
     x_max |-> x_max, y_max |-> y_max]

\* A line of the file, with what it is and, for a row of 12 fields, its level
\* and the bounding box it stands for.
Line(kind, level, chars, box) == [kind |-> kind, level |-> level, chars |-> chars, box |-> box]

NoBox == Box(<<>>, NaN, NaN, NaN, NaN, NaN)

\* The lines the files are made of: blank lines, rows of 12 fields (a word, a
\* line without text, a word with spaces around it, a row whose numbers are not
\* numbers) and rows cut short (2 fields, and 11 fields: no text).
Lines ==
    {Line("blank", 0, <<>>, NoBox),
     Line("blank", 0, <<" ", "\t", "\r">>, NoBox),
     Line("row", 5,
          Row(<<"5">>, <<"1", "0">>, <<"2", "0">>, <<"3", "0">>, <<"8">>,
              <<"9", "5", ".", "5">>, <<"h", "e", "l", "l", "o">>),
          Box(<<"h", "e", "l", "l", "o">>, Num(955, 1), Num(10, 0), Num(20, 0),
              Num(40, 0), Num(28, 0))),
     Line("row", 4,
          Row(<<"4">>, <<"0">>, <<"7">>, <<"1", "0", "0">>, <<"1", "2">>, <<"-", "1">>, <<>>),
          Box(<<>>, Num(-1, 0), Num(0, 0), Num(7, 0), Num(100, 0), Num(19, 0))),
     Line("row", 5,
          Row(<<"5">>, <<"3">>, <<"4">>, <<"5">>, <<"6">>, <<"9", "0">>, <<" ", "a", " ", "\r">>),
          Box(<<"a">>, Num(90, 0), Num(3, 0), Num(4, 0), Num(8, 0), Num(10, 0))),
     Line("row", 5,
          Row(<<"5">>, <<"x">>, <<"2">>, <<"3">>, <<>>, <<"?">>, <<"b">>),
          Box(<<"b">>, NaN, NaN, Num(2, 0), NaN, NaN)),
     Line("short", 5, <<"5", "\t", "1">>, NoBox),
     Line("short", 5,
          Join(<< <<"5">>, <<"1">>, <<"1">>, <<"1">>, <<"1">>, <<"1">>, <<"1">>, <<"2">>,
                  <<"3">>, <<"4">>, <<"9", "0">> >>, "\t"),
          NoBox)}

\* The sequences of at most n lines.
RECURSIVE LineSeqs(_)
LineSeqs(n) ==
    IF n = 0 THEN {<<>>}
    ELSE LET shorter == LineSeqs(n - 1)
         IN  shorter \cup {Append(ls, l) : ls \in shorter, l \in Lines}

\* The content of the file with these lines after the header.
RECURSIVE CharsOf(_)
CharsOf(ls) == IF ls = <<>> THEN <<>> ELSE <<Head(ls).chars>> \o CharsOf(Tail(ls))

FileOf(ls, newlineAtEnd) ==
    Join(<<HeaderLine>> \o CharsOf(ls) \o (IF newlineAtEnd THEN <<<<>>>> ELSE <<>>), "\n")

\* The handler's parsing is applied to a file, for two values of bbox_type.
ParseInit ==
    /\ ServerInit
    /\ \E ls \in LineSeqs(MaxLines) : \E newlineAtEnd \in BOOLEAN :
       \E t1, t2 \in {"word", "paragraph"} :
           fn = [op |-> "parse", lines |-> ls, data |-> FileOf(ls, newlineAtEnd),
                 bbox_type1 |-> t1, bbox_type2 |-> t2, done |-> FALSE,
                 out1 |-> BboxesPayload(<<>>, ""), out2 |-> BboxesPayload(<<>>, "")]

ParseCall ==
    /\ fn.op = "parse"
    /\ ~fn.done
    /\ fn' = [fn EXCEPT !.done = TRUE,
                        !.out1 = BboxesPayload(fn.data, fn.bbox_type1),
                        !.out2 = BboxesPayload(fn.data, fn.bbox_type2)]
    /\ UNCHANGED <<now, files, req, pc, imagePath, outputPath, child, resp, hist, crashed>>

ParseSpec == ParseInit /\ [][ParseCall]_vars

\* ------------------------------------------- validation of the image on its own
\* Longest base64 string, in characters.
MaxB64Len == 3

\* The base64 characters (as their 6-bit values) the strings are made of: with
\* them a buffer can begin with each signature and with near misses of each.
Sextets == {0, 17, 21, 32, 34, 36, 52, 61, 63}

RECURSIVE Base64Strings(_)
Base64Strings(n) ==
    IF n = 0 THEN {<<>>}
    ELSE LET shorter == Base64Strings(n - 1)
         IN  shorter \cup {Append(s, c) : s \in shorter, c \in Sextets}

\* One request, whose base64_image is any of the strings.
ValidatorInit ==
    /\ ServerInit
    /\ \E s \in Base64Strings(MaxB64Len) : fn = [op |-> "validate", image |-> JsStr(s)]

ValidatorGetText ==
    /\ fn.op = "validate"
    /\ pc[1] = "idle"
    /\ HandleGetText(1, Request("get-text", TRUE, fn.image, NoBboxType))

ValidatorGetBboxes ==
    /\ fn.op = "validate"
    /\ pc[1] = "idle"
    /\ \E b \in BboxTypeInputs : HandleGetBboxes(1, Request("get-bboxes", TRUE, fn.image, b))

ValidatorNext == ValidatorGetText \/ ValidatorGetBboxes

ValidatorSpec == ValidatorInit /\ [][ValidatorNext]_vars

\* ------------------------------------------------------------------- claims
\* A response is sent to request r in this step.
Responds(r) == resp[r].status = 0 /\ resp'[r].status # 0

\* cleanupFiles is called for request r in this step.
CleansUp(r) == hist'[r].cleanups > hist[r].cleanups

\* C1: when a response is sent for a request, none of the files staged or
\* produced for it (the image, <outputBase>.txt, <outputBase>.tsv) exists, on
\* every path through the handler.
C1_NoStagedFileAtResponse ==
    [][\A r \in Requests :
          Responds(r) => \A p \in OwnPaths(r) : ~files'[p].present]_vars

\* C2: every failure from staging onward (image write, recognizer, output read)
\* has cleanupFiles called for the request before the 500 response is sent.
C2_CleanupBeforeEvery500 ==
    \A r \in Requests :
        (resp[r].status = 500 /\ hist[r].fail \in {"write", "recognizer", "read"})
            => hist[r].cleanups >= 1

\* The first two bytes of the decoded image are those of a jpg, png or gif.
KnownFormat(image) ==
    /\ image.type = "string"
    /\ LET b == Base64Decode(image.v)
       IN  Len(b) >= 2 /\ <<b[1], b[2]>> \in {<<255, 216>>, <<137, 80>>, <<71, 73>>}

\* The request fails validation: no image or one of no known format, or, on
\* get-bboxes, no bbox_type or one that is not a granularity.
FailsValidation(q) ==
    \/ ~KnownFormat(q.base64_image)
    \/ /\ q.endpoint = "get-bboxes"
       /\ q.bbox_type.v \notin {"word", "line", "paragraph", "block", "page"}

\* C3: a request that fails validation is answered with status 400, no file is
\* ever written for it and the recognizer is never invoked for it.
C3_ValidationFailure ==
    \A r \in Requests :
        (req[r].endpoint # "none" /\ req[r].json /\ FailsValidation(req[r]))
            => /\ resp[r].status = 400
               /\ ~Staged(r)
               /\ hist[r].writes = 0
               /\ hist[r].execs = 0
               /\ \A p \in Paths : files[p].src # r

\* Two requests were refused, one for its bbox_type and one for its image.
C3_Witness ==
    \E r, q \in Requests :
        /\ resp[r] = ErrorResponse(400, "Invalid bbox_type.")
        /\ req[r].bbox_type = NoBboxType
        /\ resp[q] = ErrorResponse(400, "Invalid base64_image.")
        /\ req[q].base64_image = JsStr(Zero64)

\* C4: when every asynchronous step completes, every request received reaches
\* the Responded state, whatever the recognizer wrote to its output file.
C4_EveryRequestResponds ==
    \A r \in Requests : (pc[r] # "idle") ~> (resp[r].status # 0)

\* C5: an error raised while a request is handled and not dealt with by the
\* handler is answered by the fallback with status 500 and the message
\* "Internal server error".
C5_FallbackAnswers ==
    \A r \in Requests :
        hist[r].raised # "none" => resp[r] = ErrorResponse(500, "Internal server error")

\* The staged file pairs of the requests have pairwise distinct names.
DistinctNames ==
    \A r, q \in Requests :
        (r # q /\ Staged(r) /\ Staged(q))
            => imagePath[r] # imagePath[q] /\ outputPath[r] # outputPath[q]

\* C6: when the staged file pairs have pairwise distinct names, under every
\* interleaving, the result a request is answered with comes from the output
\* made from its own image, and the cleanup of a request deletes no file of
\* another request.
C6_Isolation ==
    [][DistinctNames =>
          \A r \in Requests :
              /\ (Responds(r) /\ resp'[r].status = 200) => resp'[r].src = r
              /\ CleansUp(r) =>
                     \A p \in Paths :
                         (files[p].present /\ ~files'[p].present)
                             => /\ files[p].src = r
                                /\ \A q \in Requests \ {r} : p \notin OwnPaths(q)]_vars

\* One request has its result while the image and the output of another, whose
\* read is under way, are still there.
C6_Witness ==
    \E r, q \in Requests :
        /\ r # q
        /\ DistinctNames
        /\ resp[r].status = 200
        /\ hist[r].cleanups = 1
        /\ pc[q] = "reading"
        /\ files[imagePath[q]].present
        /\ files[ResultPath(q)].present

\* C7: the recognizer is started only after the image write succeeded, and
\* while it has not exited the handler reads nothing, cleans nothing up and
\* sends no response; reads, cleanup and the response come after its exit.
C7_StrictSequence ==
    \A r \in Requests :
        /\ hist[r].execs > 0 => hist[r].wrote
        /\ child[r].state = "running"
               => hist[r].reads = 0 /\ hist[r].cleanups = 0 /\ resp[r].status = 0
        /\ (hist[r].reads > 0 \/ hist[r].cleanups > 0) => child[r].state = "exited"
        /\ (hist[r].wrote /\ resp[r].status # 0) => child[r].state = "exited"

\* A request went through the write, the recognizer, the read and the cleanup.
C7_Witness ==
    \E r \in Requests :
        /\ hist[r].wrote
        /\ child[r].state = "exited"
        /\ hist[r].reads = 1
        /\ hist[r].cleanups = 1
        /\ resp[r].status = 200

\* C8: when writing the image fails, the request is answered with status 500
\* and the recognizer is never invoked for it.
C8_WriteFailure ==
    \A r \in Requests :
        hist[r].fail = "write"
            => resp[r].status = 500 /\ hist[r].execs = 0 /\ child[r].state = "none"

\* The write of a request failed.
C8_Witness ==
    \E r \in Requests :
        /\ hist[r].fail = "write"
        /\ resp[r] = ErrorResponse(500, "Error saving image.")
        /\ files[imagePath[r]].present

\* C9: the recognizer is invoked at most once per request; when it fails, the
\* request is answered with status 500 and a message that carries the
\* standard-error text, and the output file is never read.
C9_RecognizerFailure ==
    \A r \in Requests :
        /\ hist[r].execs <= 1
        /\ child[r].err => hist[r].reads = 0
        /\ (child[r].err /\ pc[r] = "done")
               => /\ resp[r].status = 500
                  /\ resp[r].message = "Error processing image: " \o child[r].stderr

\* The recognizer of a request failed with text on standard error.
C9_Witness ==
    \E r \in Requests :
        /\ child[r].err
        /\ child[r].stderr = "boom"
        /\ pc[r] = "done"
        /\ hist[r].execs = 1

\* C10: cleanupFiles never raises an error to its caller, whatever the file
\* system holds and whichever deletions fail, and a second call with the same
\* arguments leaves the directories as the first call left them.
C10_CleanupIdempotent ==
    fn.op = "cleanup" => /\ ~fn.raised
                         /\ fn.calls = 2 => fn.fs = fn.first

\* Two calls, the first of which deleted a file and failed to delete another.
C10_Witness ==
    /\ fn.op = "cleanup"
    /\ fn.calls = 2
    /\ fn.logged
    /\ fn.first # fn.before

\* C11: on the termination signal every file of uploads and of output is
\* deleted (but those whose deletion fails), whichever request created it, and
\* a deletion error does not leave the signal handler.
C11_SweepDeletesEverything ==
    (fn.op = "sweep" /\ fn.phase = "done")
        => /\ ~fn.raised
           /\ \A p \in Paths :
                  (fn.before[p].present /\ p \notin fn.undeletable) => ~fn.fs[p].present

\* The lines of ls that are not blank.
NonBlank(ls) == SelectSeq(ls, LAMBDA l : l.kind # "blank")

\* The bounding boxes the rows of ls stand for, in order.
RECURSIVE BoxesOf(_)
BoxesOf(ls) ==
    IF ls = <<>> THEN <<>>
    ELSE (IF Head(ls).kind = "row" THEN <<Head(ls).box>> ELSE <<>>) \o BoxesOf(Tail(ls))

\* C12: a malformed row never fails the request: every non-blank row after the
\* header, one with fewer than 12 fields included, gives a record and the
\* request gets its success response.
C12_MalformedRowNeverFails ==
    (fn.op = "parse" /\ fn.done)
        => /\ ~fn.out1.threw
           /\ Len(fn.out1.bboxes) = Len(NonBlank(fn.lines))

\* C13: the first line is discarded, blank lines are skipped and each row of
\* 12 fields gives, in order, one record with text = the trimmed 12th field,
\* confidence = the 11th, x_min = left, y_min = top, x_max = left + width and
\* y_max = top + height; so a file whose rows have 12 fields gives as many
\* records as it has non-blank lines after the header.
C13_RowsToRecords ==
    (fn.op = "parse" /\ fn.done /\ \A i \in DOMAIN fn.lines : fn.lines[i].kind # "short")
        => /\ ~fn.out1.threw
           /\ fn.out1.bboxes = BoxesOf(fn.lines)
           /\ Len(fn.out1.bboxes) = Len(NonBlank(fn.lines))

\* A file of a blank line and a word row was parsed.
C13_Witness ==
    /\ fn.op = "parse"
    /\ fn.done
    /\ Len(fn.lines) = 2
    /\ fn.lines[1].kind = "blank"
    /\ fn.lines[2].kind = "row"
    /\ fn.out1.bboxes = <<fn.lines[2].box>>
    /\ fn.lines[2].box.x_max = Num(40, 0)

\* C14: bbox_type has no influence on the bboxes: two requests that differ
\* only in their bbox_type and see the same tabular output get the same list,
\* which holds the rows of every level, and each gets its own bbox_type back.
C14_BboxTypeIsALabel ==
    (fn.op = "parse" /\ fn.done /\ ~fn.out1.threw)
        => /\ ~fn.out2.threw
           /\ fn.out1.bboxes = fn.out2.bboxes
           /\ Len(fn.out1.bboxes) = Len(NonBlank(fn.lines))
           /\ fn.out1.bbox_type = fn.bbox_type1
           /\ fn.out2.bbox_type = fn.bbox_type2

\* A file with a word row and a line row was parsed for "word" and for
\* "paragraph".
C14_Witness ==
    /\ fn.op = "parse"
    /\ fn.done
    /\ fn.bbox_type1 = "word"
    /\ fn.bbox_type2 = "paragraph"
    /\ Len(fn.lines) = 2
    /\ fn.lines[1].level = 5
    /\ fn.lines[2].level = 4
    /\ Len(fn.out2.bboxes) = 2

\* The buffer begins with FF D8, 89 50 or 47 49.
KnownSignature(buffer) ==
    /\ Len(buffer) >= 2
    /\ <<buffer[1], buffer[2]>> \in {<<255, 216>>, <<137, 80>>, <<71, 73>>}

\* C15: the validator accepts a decoded buffer if and only if its first two
\* bytes are FF D8, 89 50 or 47 49 (an empty buffer and one of a single byte are
\* rejected), and a request whose base64_image is rejected gets status 400 with
\* the message "Invalid base64_image." on both endpoints.
C15_ValidatorAcceptsSignatures ==
    (fn.op = "validate" /\ pc[1] # "idle")
        => LET buffer == Base64Decode(fn.image.v)
           IN  /\ isValidBase64Image(fn.image) <=> KnownSignature(buffer)
               /\ ~KnownSignature(buffer)
                      => /\ pc[1] = "done"
                         /\ resp[1] = ErrorResponse(400, "Invalid base64_image.")
                         /\ ~Staged(1)
               /\ KnownSignature(buffer)
                      => /\ resp[1].message # "Invalid base64_image."
                         /\ Staged(1) \/ (Tabular(1) /\ BboxTypeRejected(req[1]))

\* get-bboxes rejected an image whose buffer is the single byte FF.
C15_Witness ==
    /\ fn.op = "validate"
    /\ Base64Decode(fn.image.v) = <<255>>
    /\ Tabular(1)
    /\ req[1].bbox_type.v = "word"
    /\ resp[1] = ErrorResponse(400, "Invalid base64_image.")

\* C16: any two requests in flight at the same time, on the same or on
\* different endpoints, have different staged image paths and different output
\* basenames.
C16_InFlightNamesDiffer ==
    \A r, q \in Requests :
        (r # q /\ InFlight(r) /\ InFlight(q))
            => imagePath[r] # imagePath[q] /\ outputPath[r] # outputPath[q]

\* C17: within one request the image path uploads/image_<T>.png and the output
\* basename output/image_<T> carry one and the same token T, whatever the clock
\* does while the handler runs.
C17_OneTokenPerRequest ==
    \A r \in Requests : Staged(r) => imagePath[r].token = outputPath[r].token

\* C18: cleanupFiles deletes each of the three files that is present and can be
\* deleted: a deletion error on one of them is swallowed and leaves no other,
\* deletable file of the request behind.
C18_CleanupDeletesAllDeletable ==
    (fn.op = "cleanup" /\ fn.calls >= 1)
        => /\ ~fn.raised
           /\ \A p \in OwnPathsOf(fn.imagePath, fn.outputBase) :
                  (fn.before[p].present /\ p \notin fn.undeletable) => ~fn.first[p].present

\* C19: when the SIGTERM sweep runs between the staging and the cleanup of a
\* request, the request still ends with a response, the success payload or a
\* 500, its cleanup raises no error, and once it has answered no file of the
\* request remains in the staging directories.
C19_SweepDuringRequest ==
    \A r \in Requests :
        (fn.op = "signal" /\ fn.swept[r])
            => /\ pc[r] # "threw"
               /\ hist[r].raised = "none"
               /\ pc[r] = "done"
                      => /\ resp[r].status \in {200, 500}
                         /\ \A p \in Paths : files[p].present => files[p].src # r

\* C20: at most one response is sent for each request: on every path through
\* get-text and get-bboxes (validation failure, write failure, recognizer
\* failure, read failure, success) exactly one response-sending statement runs,
\* and no step of the handler runs after the response has been sent.
C20_OneResponse ==
    [][\A r \in Requests :
          /\ hist'[r].responses <= 1
          /\ hist'[r].responses = hist[r].responses + (IF Responds(r) THEN 1 ELSE 0)
          /\ Responds(r)
                 => /\ pc'[r] = "done"
                    /\ hist'[r].fail \in {"validation", "write", "recognizer", "read", "none"}
          /\ pc'[r] = "done" => hist'[r].responses = 1 /\ resp'[r].status # 0
          /\ resp[r].status # 0
                 => /\ pc'[r] = pc[r]
                    /\ resp'[r] = resp[r]
                    /\ hist'[r] = hist[r]
                    /\ child'[r] = child[r]
                    /\ req'[r] = req[r]]_vars

\* One request was answered on the read-failure path and the other on the
\* success path, each once.
C20_Witness ==
    /\ pc[1] = "done"
    /\ hist[1].fail = "read"
    /\ hist[1].responses = 1
    /\ pc[2] = "done"
    /\ resp[2].status = 200
    /\ hist[2].responses = 1

====
